---- MODULE Spec2Model ----
(***************************************************************************)
(* stropt: layout resolution (ResolveMeta) and field reordering (Optimize) *)
(* over a Context of C aggregates and the process-wide type catalog.       *)
(*                                                                         *)
(* Go strings are TLA+ strings; Go slices are sequences (1-based here,     *)
(* 0-based in the source); a nil slice and an empty slice are both <<>>.   *)
(* A *Aggregate is an index into the arena `aggs`; the Context maps every  *)
(* name to such an index, so that all aliases share one record.            *)
(***************************************************************************)
EXTENDS Integers, Sequences, FiniteSets, TLC

VARIABLES
    pc,            \* position of the run: "main", "configured", "resolved", "optimized",
                   \* "reoptimized", "optimizedUnknown"
    osArgs,        \* the command line: the -32bit and -avr switches, the override flags
    TypeMap,       \* catalog: primitive spelling -> [Alignment, Size]
    pointerSize, pointerAlign,
    enumSize, enumAlign,
    aggs,          \* arena of Aggregate records (the targets of the Context's pointers)
    ctx,           \* Context: name -> index into aggs
    aggName,       \* the name given to the last ResolveMeta call
    meta,          \* result of the last ResolveMeta call
    optMeta        \* result of the last Optimize call

vars == <<pc, osArgs, TypeMap, pointerSize, pointerAlign, enumSize, enumAlign,
          aggs, ctx, aggName, meta, optMeta>>

catalogVars == <<TypeMap, pointerSize, pointerAlign, enumSize, enumAlign>>

\* ---------------------------------------------------------------- bounds
\* longest field list of the aggregate under analysis
MaxFields == 3
\* deepest chain of by-value containment that is followed
MaxDepth == 3

\* ------------------------------------------------------------- utilities
Range(s) == {s[i] : i \in 1..Len(s)}

Abs(n) == IF n < 0 THEN -n ELSE n

\* Go's % on ints: truncated division, the sign follows the dividend (b # 0)
GoRem(a, b) == IF a >= 0 THEN a % Abs(b) ELSE -((-a) % Abs(b))

RECURSIVE Join(_, _)
\* strings.Join
Join(elems, sep) ==
    IF Len(elems) = 0 THEN ""
    ELSE IF Len(elems) = 1 THEN elems[1]
    ELSE elems[1] \o sep \o Join(Tail(elems), sep)

RECURSIVE IndexFrom(_, _, _)
\* first 0-based position >= k at which substr occurs in s, or -1
IndexFrom(s, substr, k) ==
    IF k + Len(substr) > Len(s) THEN -1
    ELSE IF SubSeq(s, k + 1, k + Len(substr)) = substr THEN k
    ELSE IndexFrom(s, substr, k + 1)

\* strings.Index
StringsIndex(s, substr) == IndexFrom(s, substr, 0)

\* strings.Contains
StringsContains(s, substr) == StringsIndex(s, substr) >= 0

\* all sequences without repetition of at most n elements of S
RECURSIVE Arrangements(_, _)
Arrangements(S, n) ==
    IF n = 0 THEN {<<>>}
    ELSE LET shorter == Arrangements(S, n - 1)
         IN shorter \cup UNION {{Append(s, x) : x \in S \ Range(s)} : s \in shorter}

\* ---------------------------------------------------------- the catalog
charTypes == <<"char", "unsigned char">>

shortTypes == <<"short", "short int", "signed short", "signed short int",
                "unsigned short", "unsigned short int">>

intTypes == <<"int", "signed", "signed int", "unsigned ", "unsigned int">>

longTypes == <<"long", "long int", "signed long", "signed long int",
               "unsigned long", "unsigned long int">>

longlongTypes == <<"long long", "long long int", "signed long long",
                   "signed long long int", "unsigned long long",
                   "unsigned long long int">>

TM(a, s) == [Alignment |-> a, Size |-> s]

\* the keys of the initial TypeMap whose entry is {n, n}
Keys1 == {"char", "signed char", "unsigned char", "int8_t", "uint8_t",
          "int_least8_t", "uint_least8_t", "int_fast8_t", "uint_fast8_t"}
Keys2 == {"short", "short int", "signed short", "signed short int",
          "unsigned short", "unsigned short int", "int16_t", "uint16_t",
          "int_least16_t", "uint_least16_t"}
Keys4 == {"int", "signed", "signed int", "unsigned", "unsigned int", "float",
          "int32_t", "uint32_t", "int_least32_t", "uint_least32_t"}
Keys8 == {"long", "long int", "signed long", "signed long int",
          "unsigned long", "unsigned long int", "long long", "long long int",
          "signed long long", "signed long long int", "unsigned long long",
          "unsigned long long int", "double", "int64_t", "uint64_t",
          "intptr_t", "uintptr_t", "int_least64_t", "uint_least64_t",
          "int_fast16_t", "uint_fast16_t", "int_fast32_t", "uint_fast32_t",
          "int_fast64_t", "uint_fast64_t", "intmax_t", "uintmax_t"}
Keys16 == {"long double"}

\* the TypeMap literal (64bit defaults)
TypeMap0 ==
    [k \in Keys1 \cup Keys2 \cup Keys4 \cup Keys8 \cup Keys16 |->
        IF k \in Keys1 THEN TM(1, 1)
        ELSE IF k \in Keys2 THEN TM(2, 2)
        ELSE IF k \in Keys4 THEN TM(4, 4)
        ELSE IF k \in Keys8 THEN TM(8, 8)
        ELSE TM(16, 16)]

\* a catalog value: the five package variables together
Catalog(tm, ps, pa, es, ea) ==
    [TypeMap |-> tm, pointerSize |-> ps, pointerAlign |-> pa,
     enumSize |-> es, enumAlign |-> ea]

Catalog0 == Catalog(TypeMap0, 8, 8, 4, 4)

\* TypeMap[key] = value of a Go map: the key is added when absent
MapSet(tm, key, value) ==
    [k \in DOMAIN tm \cup {key} |-> IF k = key THEN value ELSE tm[k]]

RECURSIVE SetFirst(_, _, _, _)
\* for idx := range charTypes { TypeMap[types[idx]] = TypeMeta{...} }:
\* the loop of every integer setter runs over the indices of charTypes
SetFirst(tm, types, n, value) ==
    IF n = 0 THEN tm
    ELSE MapSet(SetFirst(tm, types, n - 1, value), types[n], value)

SetPointerAlignSize(c, alignment, size) ==
    [c EXCEPT !.pointerAlign = alignment, !.pointerSize = size]

SetEnumAlignSize(c, alignment, size) ==
    [c EXCEPT !.enumAlign = alignment, !.enumSize = size]

SetCharAlignSize(c, alignment, size) ==
    [c EXCEPT !.TypeMap = SetFirst(@, charTypes, Len(charTypes), TM(alignment, size))]

SetShortAlignSize(c, alignment, size) ==
    [c EXCEPT !.TypeMap = SetFirst(@, shortTypes, Len(charTypes), TM(alignment, size))]

SetIntAlignSize(c, alignment, size) ==
    [c EXCEPT !.TypeMap = SetFirst(@, intTypes, Len(charTypes), TM(alignment, size))]

SetLongAlignSize(c, alignment, size) ==
    [c EXCEPT !.TypeMap = SetFirst(@, longTypes, Len(charTypes), TM(alignment, size))]

SetLongLongAlignSize(c, alignment, size) ==
    [c EXCEPT !.TypeMap = SetFirst(@, longlongTypes, Len(charTypes), TM(alignment, size))]

SetFloatAlignSize(c, alignment, size) ==
    [c EXCEPT !.TypeMap = MapSet(@, "float", TM(alignment, size))]

SetDoubleAlignSize(c, alignment, size) ==
    [c EXCEPT !.TypeMap = MapSet(@, "double", TM(alignment, size))]

SetLongDoubleAlignSize(c, alignment, size) ==
    [c EXCEPT !.TypeMap = MapSet(@, "long double", TM(alignment, size))]

SetAvrSys(c) ==
    LET c1 == SetPointerAlignSize(c, 1, 2)
        c2 == SetEnumAlignSize(c1, 1, 2)
        c3 == SetCharAlignSize(c2, 1, 1)
        c4 == SetShortAlignSize(c3, 1, 2)
        c5 == SetIntAlignSize(c4, 1, 2)
        c6 == SetLongAlignSize(c5, 1, 4)
        c7 == SetLongLongAlignSize(c6, 1, 8)
        c8 == SetFloatAlignSize(c7, 1, 4)
        c9 == SetDoubleAlignSize(c8, 1, 4)
    IN SetLongDoubleAlignSize(c9, 1, 8)

Set32BitSys(c) ==
    LET c1 == SetPointerAlignSize(c, 4, 4)
        c2 == SetEnumAlignSize(c1, 4, 4)
        c3 == SetCharAlignSize(c2, 1, 1)
        c4 == SetShortAlignSize(c3, 2, 2)
        c5 == SetIntAlignSize(c4, 4, 4)
        c6 == SetLongAlignSize(c5, 4, 4)
        c7 == SetLongLongAlignSize(c6, 4, 8)
        c8 == SetFloatAlignSize(c7, 4, 4)
        c9 == SetDoubleAlignSize(c8, 4, 8)
    IN SetLongDoubleAlignSize(c9, 4, 12)

\* alignSizeMeta[idx].fun(f, s), idx counted from 1
alignSizeFun(idx, c, f, s) ==
    CASE idx = 1 -> SetPointerAlignSize(c, f, s)
      [] idx = 2 -> SetEnumAlignSize(c, f, s)
      [] idx = 3 -> SetCharAlignSize(c, f, s)
      [] idx = 4 -> SetShortAlignSize(c, f, s)
      [] idx = 5 -> SetIntAlignSize(c, f, s)
      [] idx = 6 -> SetLongAlignSize(c, f, s)
      [] idx = 7 -> SetLongLongAlignSize(c, f, s)
      [] idx = 8 -> SetFloatAlignSize(c, f, s)
      [] idx = 9 -> SetDoubleAlignSize(c, f, s)
      [] idx = 10 -> SetLongDoubleAlignSize(c, f, s)

\* a flag that was not given on the command line
NoFlag == <<>>

RECURSIVE applyFlags(_, _, _)
\* the loop of handleSizeAlignOptions over flags[idx..]; a given flag is the
\* pair <<f, s>> of the two integers parsed from "f,s"
applyFlags(flags, idx, c) ==
    IF idx > Len(flags) THEN c
    ELSE IF flags[idx] = NoFlag THEN applyFlags(flags, idx + 1, c)
    ELSE applyFlags(flags, idx + 1,
                    alignSizeFun(idx, c, flags[idx][1], flags[idx][2]))

handleSizeAlignOptions(flags, c) == applyFlags(flags, 1, c)

\* ------------------------------------------------- fields and aggregates
StructKind == 0
UnionKind == 1
EnumKind == 2

Basic(qualifiers, typeName, name) ==
    [kind |-> "Basic", Qualifiers |-> qualifiers, TypeName |-> typeName,
     Name |-> name]

Pointer(qualifiers, typeName, name, pointerQualifiers) ==
    [kind |-> "Pointer", Qualifiers |-> qualifiers, TypeName |-> typeName,
     Name |-> name, PointerQualifiers |-> pointerQualifiers]

Array(qualifiers, typeName, name, elements) ==
    [kind |-> "Array", Qualifiers |-> qualifiers, TypeName |-> typeName,
     Name |-> name, Elements |-> elements]

FuncPointer(returnType, name, args) ==
    [kind |-> "FuncPointer", ReturnType |-> returnType, Name |-> name,
     Args |-> args]

EnumEntry(entry) == [kind |-> "EnumEntry", entry |-> entry]

Aggregate(name, typedef, kind, fields) ==
    [Name |-> name, Typedef |-> typedef, Kind |-> kind, Fields |-> fields]

keyQualifiers == {"signed", "unsigned", "long"}

RECURSIVE keptQualifiers(_, _)
\* the loop of Basic.UnqualifiedType over Qualifiers[idx..]: a qualifier is
\* kept when it is a key qualifier or when it is the last one
keptQualifiers(quals, idx) ==
    IF idx > Len(quals) THEN <<>>
    ELSE IF quals[idx] \in keyQualifiers \/ idx = Len(quals)
         THEN <<quals[idx]>> \o keptQualifiers(quals, idx + 1)
         ELSE keptQualifiers(quals, idx + 1)

\* Basic.UnqualifiedType, which Array and Pointer forward to
UnqualifiedType(b) ==
    Join(Append(keptQualifiers(b.Qualifiers, 1), b.TypeName), " ")

\* GetAggregateNames, as a sequence; s[k:] of a Go string is SubSeq(s, k+1, Len(s))
GetAggregateNames(aggregate) ==
    LET structTag == "struct "
        structIndex == StringsIndex(aggregate.Name, structTag)
        noStructName == SubSeq(aggregate.Name, structIndex + Len(structTag) + 1,
                               Len(aggregate.Name))
    IN (IF aggregate.Typedef # "" THEN <<aggregate.Typedef>> ELSE <<>>)
       \o (IF aggregate.Name # "" THEN <<aggregate.Name, noStructName>> ELSE <<>>)

RECURSIVE registerNames(_, _, _, _)
\* for _, name := range names { ctx[name] = aggregate }
registerNames(c, names, idx, ptr) ==
    IF idx > Len(names) THEN c
    ELSE registerNames([k \in DOMAIN c \cup {names[idx]} |->
                            IF k = names[idx] THEN ptr ELSE c[k]],
                       names, idx + 1, ptr)

RECURSIVE extractFrom(_, _, _)
\* the loop of ExtractAggregates over the declarations decls[idx..] of the
\* translation unit; the pointer to the idx-th aggregate is idx
extractFrom(decls, idx, c) ==
    IF idx > Len(decls) THEN c
    ELSE extractFrom(decls, idx + 1,
                     registerNames(c, GetAggregateNames(decls[idx]), 1, idx))

\* the Context ExtractAggregates returns for a translation unit
ExtractAggregates(decls) == extractFrom(decls, 1, <<>>)

\* ------------------------------------------------------------ resolution
OkMeta(size, alignment, layout) ==
    [status |-> "ok", Size |-> size, Alignment |-> alignment, Layout |-> layout]

\* an error whose %w chain ends in ErrSymbol
SymbolErr(msg) == [status |-> "err", is |-> "ErrSymbol", msg |-> msg]

\* a run-time panic or fatal error: nothing is returned
Fault(why) == [status |-> "fault", why |-> why]

NoResult == [status |-> "none"]

\* the padding is not recorded
LayoutOf_noPadding(field, curr, padding) ==
    [Field |-> field, size |-> curr.Size, alignment |-> curr.Alignment,
     padding |-> 0, subAggregate |-> curr.Layout]

LayoutOf(field, curr, padding) ==
    [Field |-> field, size |-> curr.Size, alignment |-> curr.Alignment,
     padding |-> padding, subAggregate |-> curr.Layout]

\* the last field is padded to its own alignment
padToAlignmentOf_own(resMetas, idx, maxAlign) ==
    IF idx = Len(resMetas) THEN resMetas[idx].Alignment
    ELSE resMetas[idx + 1].Alignment

\* var padToAlignment: maxAlign after the last field, else the alignment of
\* the next field
padToAlignmentOf(resMetas, idx, maxAlign) ==
    IF idx = Len(resMetas) THEN maxAlign ELSE resMetas[idx + 1].Alignment

\* every field is padded to the alignment of the struct
structPadding_toMax(maxAlign, totSize, padToAlignment) ==
    GoRem(maxAlign - GoRem(totSize, maxAlign), maxAlign)

\* padding := (maxAlign - (totSize % maxAlign)) % padToAlignment
structPadding(maxAlign, totSize, padToAlignment) ==
    GoRem(maxAlign - GoRem(totSize, maxAlign), padToAlignment)

RECURSIVE secondPass(_, _, _, _, _, _)
\* the struct loop of ResolveMeta from field idx on
secondPass(fields, resMetas, maxAlign, idx, totSize, layouts) ==
    IF idx > Len(fields) THEN OkMeta(totSize, maxAlign, layouts)
    ELSE LET curr == resMetas[idx]
             tot == totSize + curr.Size
             padToAlignment == padToAlignmentOf(resMetas, idx, maxAlign)
         IN IF maxAlign = 0 \/ padToAlignment = 0
            THEN Fault("integer divide by zero")
            ELSE LET padding == structPadding(maxAlign, tot, padToAlignment)
                 IN secondPass(fields, resMetas, maxAlign, idx + 1, tot + padding,
                               Append(layouts, LayoutOf(fields[idx], curr, padding)))

\* the size of the last member wins
raiseMaxSize_last(maxSize, size) == size

\* if curr.Size > maxSize { maxSize = curr.Size }
raiseMaxSize(maxSize, size) == IF size > maxSize THEN size ELSE maxSize

RECURSIVE unionMaxSize(_, _, _)
\* the running maxSize of resolveUnion after meta[idx..]
unionMaxSize(metas, idx, maxSize) ==
    IF idx > Len(metas) THEN maxSize
    ELSE unionMaxSize(metas, idx + 1, raiseMaxSize(maxSize, metas[idx].Size))

\* the padding is stored in the first entry
padLastLayout_first(layouts, padding) == [layouts EXCEPT ![1].padding = padding]

\* layouts[len(layouts)-1].padding = padding
padLastLayout(layouts, padding) ==
    [layouts EXCEPT ![Len(layouts)].padding = padding]

resolveUnion(agg, metas, max) ==
    LET maxSize == unionMaxSize(metas, 1, -1)
        layouts == [idx \in 1..Len(metas) |-> LayoutOf(agg.Fields[idx], metas[idx], 0)]
    IN IF max = 0 THEN Fault("integer divide by zero")
       ELSE IF Len(layouts) = 0 THEN Fault("index out of range")
       ELSE LET padding == GoRem(max - GoRem(maxSize, max), max)
            IN OkMeta(maxSize + padding, max, padLastLayout(layouts, padding))

\* the alignment of the last field wins
raiseMaxAlign_last(maxAlign, alignment) == alignment

\* if agg.Alignment > maxAlign { maxAlign = agg.Alignment }
raiseMaxAlign(maxAlign, alignment) ==
    IF alignment > maxAlign THEN alignment ELSE maxAlign

\* size and alignment are exchanged
resolveEnum_swapped == OkMeta(enumAlign, enumSize, <<>>)

\* simplified case: enum
resolveEnum == OkMeta(enumSize, enumAlign, <<>>)

RECURSIVE ResolveMeta(_, _, _)
RECURSIVE firstPass(_, _, _, _, _, _)
RECURSIVE handleValueType(_, _, _)
RECURSIVE resolveAggregate(_, _, _)

\* ctx.ResolveMeta(name) over the arena ag, at recursion depth d
ResolveMeta(ag, name, d) ==
    IF d > MaxDepth THEN Fault("stack overflow")
    ELSE IF name \notin DOMAIN ctx
    THEN SymbolErr("cannot find symbol: " \o name)
    ELSE LET agg == ag[ctx[name]]
             fp == firstPass(ag, agg.Fields, 1, <<>>, 0, d)
         IN IF fp.status = "err"
            THEN SymbolErr("name " \o name \o ": " \o fp.msg)
            ELSE IF fp.status = "fault" THEN fp
            ELSE IF agg.Kind = EnumKind THEN resolveEnum
            ELSE IF agg.Kind = UnionKind
            THEN resolveUnion(agg, fp.resMetas, fp.maxAlign)
            ELSE secondPass(agg.Fields, fp.resMetas, fp.maxAlign, 1, 0, <<>>)

\* size := fMeta.Size; if isArray { size *= arrType.Elements }
baseSize(fMeta, field) ==
    IF field.kind = "Array" THEN fMeta.Size * field.Elements ELSE fMeta.Size

\* the size of an array of aggregates is the size of one element
scaleSubMeta_single(subMeta, field) == subMeta

\* if isArray { subMeta.Size *= arrType.Elements }
scaleSubMeta(subMeta, field) ==
    IF field.kind = "Array"
    THEN [subMeta EXCEPT !.Size = @ * field.Elements]
    ELSE subMeta

\* a Pointer is resolved like a value of the pointee type
casePointer_pointee(ag, field, d) ==
    IF field.kind = "Pointer" THEN handleValueType(ag, field, d)
    ELSE OkMeta(pointerSize, pointerAlign, <<>>)

\* case FuncPointer, Pointer of firstPass
casePointer(ag, field, d) == OkMeta(pointerSize, pointerAlign, <<>>)

\* the loop of firstPass from field idx on
firstPass(ag, fields, idx, resMetas, maxAlign, d) ==
    IF idx > Len(fields)
    THEN [status |-> "ok", resMetas |-> resMetas, maxAlign |-> maxAlign]
    ELSE LET field == fields[idx]
             m == CASE field.kind \in {"Basic", "Array"} ->
                         handleValueType(ag, field, d)
                    [] field.kind \in {"FuncPointer", "Pointer"} ->
                         casePointer(ag, field, d)
                    [] field.kind = "EnumEntry" ->
                         OkMeta(enumSize, enumAlign, <<>>)
         IN IF m.status # "ok" THEN m
            ELSE firstPass(ag, fields, idx + 1, Append(resMetas, m),
                           raiseMaxAlign(maxAlign, m.Alignment), d)

handleValueType(ag, field, d) ==
    LET fType == UnqualifiedType(field)
    IN IF fType \in DOMAIN TypeMap
       THEN LET fMeta == TypeMap[fType]
            IN OkMeta(baseSize(fMeta, field), fMeta.Alignment, <<>>)
       ELSE LET subMeta == resolveAggregate(ag, fType, d)
            IN IF subMeta.status # "ok" THEN subMeta
               ELSE scaleSubMeta(subMeta, field)

resolveAggregate(ag, aggType, d) ==
    IF aggType \notin DOMAIN ctx
    THEN SymbolErr("cannot find symbol: inner '" \o aggType \o "'")
    ELSE ResolveMeta(ag, ag[ctx[aggType]].Name, d + 1)

\* ---------------------------------------------------------------- Optimize
\* fields of equal alignment compare as less
cmpLayout_lessOrEqual(i, j) == IF i.alignment >= j.alignment THEN -1 ELSE 1

\* the first argument is compared with itself
cmpLayout_self(i, j) == -(i.alignment - i.alignment)

\* the comparison function given to slices.SortFunc
cmpLayout(i, j) == -(i.alignment - j.alignment)

RECURSIVE insertLeft_overwrite(_, _)
\* the element moved left overwrites its neighbour instead of swapping
insertLeft_overwrite(data, j) ==
    IF j > 1 /\ cmpLayout(data[j], data[j - 1]) < 0
    THEN insertLeft_overwrite([data EXCEPT ![j - 1] = data[j]], j - 1)
    ELSE data

RECURSIVE insertLeft(_, _)
\* the inner loop of the insertion sort: data[j] moves left while it
\* compares less than its left neighbour
insertLeft(data, j) ==
    IF j > 1 /\ cmpLayout(data[j], data[j - 1]) < 0
    THEN insertLeft([data EXCEPT ![j] = data[j - 1], ![j - 1] = data[j]], j - 1)
    ELSE data

RECURSIVE insertionSort(_, _)
insertionSort(data, i) ==
    IF i > Len(data) THEN data
    ELSE insertionSort(insertLeft(data, i), i + 1)

\* data with the elements at i and j exchanged
swapAt(data, i, j) == [data EXCEPT ![i] = data[j], ![j] = data[i]]

\* order2CmpFunc: the two indices in order, and the count of swaps
order2(data, a, b, swaps) ==
    IF cmpLayout(data[b], data[a]) < 0 THEN <<b, a, swaps + 1>> ELSE <<a, b, swaps>>

\* medianCmpFunc: the index of the median of data[a], data[b], data[c], and
\* the count of swaps
medianOf(data, a, b, c) ==
    LET o1 == order2(data, a, b, 0)
        o2 == order2(data, o1[2], c, o1[3])
        o3 == order2(data, o1[1], o2[1], o2[3])
    IN <<o3[2], o3[3]>>

\* choosePivotCmpFunc on data[lo..hi], for fewer than 50 elements: the pivot
\* and whether no swap was counted (increasingHint)
choosePivot(data, lo, hi) ==
    LET l == hi - lo + 1
        q == l \div 4
    IN IF l >= 8 THEN medianOf(data, lo + q, lo + q * 2, lo + q * 3)
       ELSE <<lo + q * 2, 0>>

\* partialInsertionSortCmpFunc on fewer than 50 elements changes nothing and
\* returns whether data[lo..hi] is in order already
partialInsertionSort(data, lo, hi) ==
    \A i \in (lo + 1)..hi : ~(cmpLayout(data[i], data[i - 1]) < 0)

RECURSIVE scanUp(_, _, _, _)
\* for i <= j && less(data[i], data[a]) { i++ }
scanUp(data, i, j, a) ==
    IF i <= j /\ cmpLayout(data[i], data[a]) < 0 THEN scanUp(data, i + 1, j, a)
    ELSE i

RECURSIVE scanDown(_, _, _, _)
\* for i <= j && !less(data[j], data[a]) { j-- }
scanDown(data, i, j, a) ==
    IF i <= j /\ ~(cmpLayout(data[j], data[a]) < 0) THEN scanDown(data, i, j - 1, a)
    ELSE j

RECURSIVE partitionLoop(_, _, _, _)
\* the loop of partitionCmpFunc, the pivot being at a: the partitioned data
\* and the final place of the pivot
partitionLoop(data, i, j, a) ==
    LET i1 == scanUp(data, i, j, a)
        j1 == scanDown(data, i1, j, a)
    IN IF i1 > j1 THEN <<swapAt(data, j1, a), j1>>
       ELSE partitionLoop(swapAt(data, i1, j1), i1 + 1, j1 - 1, a)

\* partitionCmpFunc on data[lo..hi]
partition(data, lo, hi, pivot) ==
    partitionLoop(swapAt(data, lo, pivot), lo + 1, hi, lo)

\* insertionSortCmpFunc on data[lo..hi]
sortRange(data, lo, hi) ==
    SubSeq(data, 1, lo - 1) \o insertionSort(SubSeq(data, lo, hi), 2)
        \o SubSeq(data, hi + 1, Len(data))

\* pdqsortCmpFunc on a slice of 13 elements: one choice of pivot and one
\* partition, after which both parts have at most 12 elements and are
\* insertion sorted
pdqsort(data) ==
    LET pv == choosePivot(data, 1, Len(data))
    IN IF pv[2] = 0 /\ partialInsertionSort(data, 1, Len(data)) THEN data
       ELSE LET pt == partition(data, 1, Len(data), pv[1])
            IN sortRange(sortRange(pt[1], 1, pt[2] - 1), pt[2] + 1, Len(data))

\* slices.SortFunc(layout, cmp): an insertion sort up to 12 elements, the
\* pattern-defeating quicksort above them
SortFunc(layout) ==
    IF Len(layout) <= 12 THEN insertionSort(layout, 2) ELSE pdqsort(layout)

\* the sorted fields are written to a copy of the record
OptimizedAggs_copy(ag, name, m) == ag

\* the sorted order is written back whatever the kind of the aggregate
OptimizedAggs_anyKind(ag, name, m) ==
    LET layout == SortFunc(m.Layout)
        agg == ag[ctx[name]]
    IN [ag EXCEPT ![ctx[name]].Fields =
           [idx \in 1..Len(agg.Fields) |->
               IF idx <= Len(layout) THEN layout[idx].Field
               ELSE agg.Fields[idx]]]

\* the arena after Optimize(name, m) wrote the sorted order back
OptimizedAggs(ag, name, m) ==
    LET layout == SortFunc(m.Layout)
        agg == ag[ctx[name]]
    IN IF agg.Kind # StructKind THEN ag
       ELSE [ag EXCEPT ![ctx[name]].Fields =
                [idx \in 1..Len(agg.Fields) |->
                    IF idx <= Len(layout) THEN layout[idx].Field
                    ELSE agg.Fields[idx]]]

\* the Layout of the caller is sorted in place
callerMeta_sortedInPlace(m) == [m EXCEPT !.Layout = SortFunc(m.Layout)]

\* the metadata of the caller after Optimize(name, m): the sort worked on
\* layout, a copy of m.Layout
callerMeta(m) == m

\* what Optimize(name, m) returns
OptimizeResult(ag, name, m) ==
    IF name \notin DOMAIN ctx THEN Fault("nil pointer dereference")
    ELSE IF ag[ctx[name]].Kind = StructKind
            /\ Len(m.Layout) < Len(ag[ctx[name]].Fields)
    THEN Fault("index out of range")
    ELSE ResolveMeta(OptimizedAggs(ag, name, m), name, 0)

\* a successful resolution stores the fields in sorted order
IndexAfterResolve_sorted(ag, name) ==
    LET m == ResolveMeta(ag, name, 0)
    IN IF m.status = "ok" THEN OptimizedAggs_anyKind(ag, name, m) ELSE ag

\* the arena after ResolveMeta(name): the resolution reads the aggregates
\* and the catalog and assigns to locals only
IndexAfterResolve(ag, name) == ag

\* ------------------------------------------------------ the analysed source
\* struct T { short s; char c; } with typedef T_t
declT == Aggregate("struct T", "T_t", StructKind,
                   <<Basic(<<>>, "short", "s"), Basic(<<>>, "char", "c")>>)

\* typedef struct { int a; char b; } anon_t
declAnon == Aggregate("", "anon_t", StructKind,
                      <<Basic(<<>>, "int", "a"), Basic(<<>>, "char", "b")>>)

\* enum En { A, B }
declEn == Aggregate("enum En", "", EnumKind, <<EnumEntry("A"), EnumEntry("B")>>)

\* struct Bad { char c; foo_t x; }, foo_t being declared nowhere
declBad == Aggregate("struct Bad", "", StructKind,
                     <<Basic(<<>>, "char", "c"), Basic(<<>>, "foo_t", "x")>>)

\* union U { char arr[9]; double b; }
declU == Aggregate("union U", "", UnionKind,
                   <<Array(<<>>, "char", "arr", 9), Basic(<<>>, "double", "b")>>)

\* struct Node { struct Node *next; int (*cmp)(void *); char c; }
declNode == Aggregate("struct Node", "", StructKind,
                      <<Pointer(<<>>, "struct Node", "next", <<>>),
                        FuncPointer("int", "cmp", <<"void *">>),
                        Basic(<<>>, "char", "c")>>)

\* typedef int R; struct R { char c; R v; }: the field v has the typedef
\* type R, and "R" is also the name registered for the tag of struct R
declR == Aggregate("struct R", "", StructKind,
                   <<Basic(<<>>, "char", "c"), Basic(<<>>, "R", "v")>>)

\* struct Q { volatile int a; const unsigned int b; volatile struct T t; }
declQ == Aggregate("struct Q", "", StructKind,
                   <<Basic(<<"volatile">>, "int", "a"),
                     Basic(<<"const", "unsigned">>, "int", "b"),
                     Basic(<<"volatile">>, "struct T", "t")>>)

\* fields of primitive, pointer, array, enum and struct type
PoolLayout ==
    {Basic(<<>>, "char", "c"),
     Basic(<<>>, "int", "i"),
     Basic(<<"unsigned">>, "long", "l"),
     Pointer(<<>>, "foo_t", "p", <<>>),
     Array(<<>>, "char", "a", 3),
     Basic(<<>>, "struct T", "t"),
     Basic(<<>>, "enum En", "e")}

\* fields whose type is looked up in the Context
PoolIndex ==
    {Basic(<<>>, "T_t", "tt"),
     Basic(<<>>, "T", "tb"),
     Basic(<<>>, "anon_t", "n"),
     Basic(<<>>, "foo_t", "x"),
     Basic(<<>>, "struct Bad", "b"),
     Basic(<<>>, "union U", "u"),
     Array(<<>>, "struct T", "at", 2)}

\* members of a union
PoolUnion ==
    {Basic(<<>>, "char", "c"),
     Basic(<<>>, "double", "d"),
     Array(<<>>, "char", "a", 9),
     FuncPointer("void", "f", <<"int">>),
     Basic(<<>>, "struct T", "t"),
     Basic(<<>>, "foo_t", "x")}

\* the enumerators of an enum
PoolEnum == {EnumEntry("X"), EnumEntry("Y"), EnumEntry("Z")}

KindName(kind) ==
    IF kind = UnionKind THEN "union"
    ELSE IF kind = EnumKind THEN "enum" ELSE "struct"

\* the aggregate under analysis: typedef <kind> S { fields } S_t
declS(kind, fields) == Aggregate(KindName(kind) \o " S", "S_t", kind, fields)

TranslationUnit(kind, fields) ==
    <<declT, declAnon, declEn, declBad, declU, declNode, declS(kind, fields),
      declR, declQ>>

Sources ==
    {TranslationUnit(StructKind, f) : f \in Arrangements(PoolLayout, MaxFields)}
    \cup {TranslationUnit(StructKind, f) : f \in Arrangements(PoolIndex, MaxFields)}
    \cup {TranslationUnit(UnionKind, f) : f \in Arrangements(PoolUnion, MaxFields)}
    \cup {TranslationUnit(EnumKind, f) : f \in Arrangements(PoolEnum, MaxFields)}

\* twelve fields char c1 .. c12
TwelveChars ==
    [k \in 1..12 |->
        Basic(<<>>, "char",
              <<"c1", "c2", "c3", "c4", "c5", "c6", "c7", "c8", "c9", "c10",
                "c11", "c12">>[k])]

\* structs of 13 fields: twelve char and an int at the end, in the middle,
\* in front
LongSources ==
    {TranslationUnit(StructKind, Append(TwelveChars, Basic(<<>>, "int", "i"))),
     TranslationUnit(StructKind,
         SubSeq(TwelveChars, 1, 5) \o <<Basic(<<>>, "int", "i")>>
             \o SubSeq(TwelveChars, 6, 12)),
     TranslationUnit(StructKind, <<Basic(<<>>, "int", "i")>> \o TwelveChars)}

\* the names given to ResolveMeta
QueryNames ==
    {"struct S", "union S", "enum S", "S_t", "S", "struct T", "anon_t",
     "union U", "enum En", "struct Bad", "struct Node", "struct R",
     "struct Q", "nope"}

\* flags with the given <<index, f, s>> entries set
Flags(given) ==
    [idx \in 1..10 |->
        IF \E g \in given : g[1] = idx
        THEN LET g == CHOOSE g \in given : g[1] = idx IN <<g[2], g[3]>>
        ELSE NoFlag]

\* the command lines: no override, -int 4,5, -char 3,3, -char 2,1,
\* -ptr 2,4 -enum 1,2
FlagChoices ==
    {Flags({}), Flags({<<5, 4, 5>>}), Flags({<<3, 3, 3>>}), Flags({<<3, 2, 1>>}),
     Flags({<<1, 2, 4>>, <<2, 1, 2>>})}

\* command lines with a zero or a negative number: -char 0,1, -int 4,0,
\* -ptr 0,0, -enum -1,4, -short 2,-2
InvalidFlagChoices ==
    {Flags({<<3, 0, 1>>}), Flags({<<5, 4, 0>>}), Flags({<<1, 0, 0>>}),
     Flags({<<2, -1, 4>>}), Flags({<<4, 2, -2>>})}

\* what main reads from the command line before it configures the catalog
CommandLine(s32bit, avr, flags) == [s32bit |-> s32bit, avr |-> avr, flags |-> flags]

\* the overrides alone, each preset alone, and -32bit -ptr 2,2
CommandLines ==
    {CommandLine(FALSE, FALSE, flags) : flags \in FlagChoices}
    \cup {CommandLine(TRUE, FALSE, Flags({})), CommandLine(FALSE, TRUE, Flags({})),
          CommandLine(TRUE, FALSE, Flags({<<1, 2, 2>>}))}

\* the invalid overrides alone, -32bit -char 0,1 and -avr -int 4,0
InvalidCommandLines ==
    {CommandLine(FALSE, FALSE, flags) : flags \in InvalidFlagChoices}
    \cup {CommandLine(TRUE, FALSE, Flags({<<3, 0, 1>>})),
          CommandLine(FALSE, TRUE, Flags({<<5, 4, 0>>}))}

\* ------------------------------------------------------------------ actions
CurrentCatalog == Catalog(TypeMap, pointerSize, pointerAlign, enumSize, enumAlign)

Install(c) ==
    /\ TypeMap' = c.TypeMap
    /\ pointerSize' = c.pointerSize
    /\ pointerAlign' = c.pointerAlign
    /\ enumSize' = c.enumSize
    /\ enumAlign' = c.enumAlign

\* the start of a run on one of the given command lines and sources
InitFrom(lines, sources) ==
    /\ pc = "main"
    /\ osArgs \in lines
    /\ TypeMap = TypeMap0
    /\ pointerSize = 8
    /\ pointerAlign = 8
    /\ enumSize = 4
    /\ enumAlign = 4
    /\ aggs \in sources
    /\ ctx = ExtractAggregates(aggs)
    /\ aggName = ""
    /\ meta = NoResult
    /\ optMeta = NoResult

InitOn(lines) == InitFrom(lines, Sources)

Init == InitOn(CommandLines)

\* main, case s32bit
MainSet32Bit ==
    /\ pc = "main"
    /\ osArgs.s32bit
    /\ Install(Set32BitSys(CurrentCatalog))
    /\ pc' = "configured"
    /\ UNCHANGED <<osArgs, aggs, ctx, aggName, meta, optMeta>>

\* main, case avr
MainSetAvr ==
    /\ pc = "main"
    /\ ~osArgs.s32bit
    /\ osArgs.avr
    /\ Install(SetAvrSys(CurrentCatalog))
    /\ pc' = "configured"
    /\ UNCHANGED <<osArgs, aggs, ctx, aggName, meta, optMeta>>

\* main, default case
MainHandleOptions ==
    /\ pc = "main"
    /\ ~osArgs.s32bit
    /\ ~osArgs.avr
    /\ Install(handleSizeAlignOptions(osArgs.flags, CurrentCatalog))
    /\ pc' = "configured"
    /\ UNCHANGED <<osArgs, aggs, ctx, aggName, meta, optMeta>>

\* meta, err := aggregates.ResolveMeta(aggName), on the configured catalog
\* or again after an Optimize that returned
Resolve ==
    /\ \/ pc = "configured"
       \/ pc = "optimized" /\ optMeta.status # "fault"
    /\ \E name \in QueryNames :
          /\ aggName' = name
          /\ meta' = ResolveMeta(aggs, name, 0)
          /\ aggs' = IndexAfterResolve(aggs, name)
    /\ optMeta' = NoResult
    /\ pc' = "resolved"
    /\ UNCHANGED <<osArgs, catalogVars, ctx>>

\* optMeta, err := aggregates.Optimize(aggName, meta)
Optimize ==
    /\ pc = "resolved"
    /\ meta.status = "ok"
    /\ aggs' = OptimizedAggs(aggs, aggName, meta)
    /\ optMeta' = OptimizeResult(aggs, aggName, meta)
    /\ meta' = callerMeta(meta)
    /\ pc' = "optimized"
    /\ UNCHANGED <<osArgs, catalogVars, ctx, aggName>>

\* aggregates.Optimize(aggName, optMeta): Optimize again, on the metadata
\* the first Optimize returned, which meta holds from now on
OptimizeAgain ==
    /\ pc = "optimized"
    /\ optMeta.status = "ok"
    /\ aggs' = OptimizedAggs(aggs, aggName, optMeta)
    /\ optMeta' = OptimizeResult(aggs, aggName, optMeta)
    /\ meta' = callerMeta(optMeta)
    /\ pc' = "reoptimized"
    /\ UNCHANGED <<osArgs, catalogVars, ctx, aggName>>

\* aggregates.Optimize(name, meta) for a name that is no key of the Context:
\* agg is nil and reading agg.Kind ends the call before any field is written
OptimizeUnknown ==
    /\ pc = "resolved"
    /\ meta.status = "ok"
    /\ \E name \in QueryNames \ DOMAIN ctx :
          /\ aggName' = name
          /\ optMeta' = OptimizeResult(aggs, name, meta)
    /\ meta' = callerMeta(meta)
    /\ pc' = "optimizedUnknown"
    /\ UNCHANGED <<osArgs, catalogVars, aggs, ctx>>

Next ==
    \/ MainSet32Bit
    \/ MainSetAvr
    \/ MainHandleOptions
    \/ Resolve
    \/ Optimize
    \/ OptimizeAgain
    \/ OptimizeUnknown

Spec == Init /\ [][Next]_vars

\* the runs whose command line overrides a category with an invalid number
InitInvalid == InitOn(InvalidCommandLines)

SpecInvalid == InitInvalid /\ [][Next]_vars

\* the runs on a struct of 13 fields
InitLong == InitFrom(CommandLines, LongSources)

SpecLong == InitLong /\ [][Next]_vars

\* ------------------------------------------------------------- properties
RECURSIVE SumOver(_, _)
\* f[1] + ... + f[n]
SumOver(f, n) == IF n = 0 THEN 0 ELSE f[n] + SumOver(f, n - 1)

MaxOfSet(S) == CHOOSE x \in S : \A y \in S : y <= x

\* the resolution of aggName over the arena as it is now
lastMeta == IF pc = "optimized" THEN optMeta ELSE meta

Fresh == pc \in {"resolved", "optimized"} /\ lastMeta.status = "ok"

\* the last resolution returned the metadata of an aggregate of kind k
FreshOfKind(k) == Fresh /\ aggs[ctx[aggName]].Kind = k

LayoutAlignments(layout) == {layout[i].alignment : i \in 1..Len(layout)}

LayoutFields(layout) == [i \in 1..Len(layout) |-> layout[i].Field]

Paddings(layout) == [i \in 1..Len(layout) |-> layout[i].padding]

\* offset at which entry i starts
StartOffset(layout, i) ==
    SumOver([j \in 1..Len(layout) |-> layout[j].size + layout[j].padding], i - 1)

\* running offset just after entry i, before its padding
OffsetAfter(layout, i) == StartOffset(layout, i) + layout[i].size

\* bytes needed to round off up to a multiple of a
CanonicalPadding(off, a) == (a - (off % a)) % a

AlignmentsDivideMax(layout) ==
    \A a \in LayoutAlignments(layout) :
        a > 0 /\ MaxOfSet(LayoutAlignments(layout)) % a = 0

\* C1: in a resolved struct whose field alignments all divide the largest
\* one, the padding after a non-last field is the canonical padding of the
\* running offset to the alignment of the next field, every field starts at
\* a multiple of its own alignment, and the padding after the last field
\* rounds the total up to a multiple of the largest alignment.
C1_StructPadding ==
    (FreshOfKind(StructKind) /\ AlignmentsDivideMax(lastMeta.Layout)) =>
        LET layout == lastMeta.Layout
            n == Len(layout)
        IN \A i \in 1..n :
              /\ layout[i].padding =
                    CanonicalPadding(OffsetAfter(layout, i),
                                     IF i < n THEN layout[i + 1].alignment
                                     ELSE MaxOfSet(LayoutAlignments(layout)))
              /\ StartOffset(layout, i) % layout[i].alignment = 0

\* a struct of three fields with padding inside and at its end
C1_Witness ==
    /\ FreshOfKind(StructKind)
    /\ AlignmentsDivideMax(lastMeta.Layout)
    /\ Len(lastMeta.Layout) >= 3
    /\ \E i \in 1..(Len(lastMeta.Layout) - 1) : lastMeta.Layout[i].padding > 0
    /\ lastMeta.Layout[Len(lastMeta.Layout)].padding > 0

\* C2: the Size of a resolved struct is an exact multiple of its Alignment
\* (Size = k * Alignment for some k), whatever the catalog holds.
C2_SizeMultipleOfAlignment ==
    FreshOfKind(StructKind) =>
        IF lastMeta.Alignment = 0 THEN lastMeta.Size = 0
        ELSE lastMeta.Size % lastMeta.Alignment = 0

\* a struct that needed trailing padding, under a changed catalog
C2_Witness ==
    /\ FreshOfKind(StructKind)
    /\ TypeMap # TypeMap0
    /\ Len(lastMeta.Layout) >= 2
    /\ lastMeta.Layout[Len(lastMeta.Layout)].padding > 0
    /\ lastMeta.Size > lastMeta.Alignment

\* C3: the sizes and paddings of the Layout of a resolved struct add up to
\* its Size, and the Layout has one entry per field, in the current order of
\* the aggregate's fields.
C3_LayoutSum ==
    FreshOfKind(StructKind) =>
        LET layout == lastMeta.Layout
        IN /\ SumOver([i \in 1..Len(layout) |-> layout[i].size + layout[i].padding],
                      Len(layout)) = lastMeta.Size
           /\ LayoutFields(layout) = aggs[ctx[aggName]].Fields

\* a struct of several fields, some of them padded
C3_Witness ==
    /\ FreshOfKind(StructKind)
    /\ Len(lastMeta.Layout) >= 2
    /\ SumOver(Paddings(lastMeta.Layout), Len(lastMeta.Layout)) > 0
    /\ lastMeta.Size > 0

\* C4: the Alignment of a resolved struct or union is the largest alignment
\* among the entries of its Layout.
C4_AlignmentIsMax ==
    ((FreshOfKind(StructKind) \/ FreshOfKind(UnionKind)) /\ Len(lastMeta.Layout) > 0) =>
        lastMeta.Alignment = MaxOfSet(LayoutAlignments(lastMeta.Layout))

\* a struct whose most aligned field is neither the first nor the last one,
\* next to a field of aggregate type
C4_Witness ==
    /\ FreshOfKind(StructKind)
    /\ Len(lastMeta.Layout) >= 3
    /\ lastMeta.Layout[2].alignment > lastMeta.Layout[1].alignment
    /\ lastMeta.Layout[2].alignment > lastMeta.Layout[3].alignment
    /\ \E i \in 1..Len(lastMeta.Layout) : lastMeta.Layout[i].subAggregate # <<>>
    /\ lastMeta.Alignment = lastMeta.Layout[2].alignment

\* s and t hold the same elements, each as many times
IsPermutation(s, t) ==
    /\ Len(s) = Len(t)
    /\ \A x \in Range(s) \cup Range(t) :
          Cardinality({i \in 1..Len(s) : s[i] = x})
              = Cardinality({i \in 1..Len(t) : t[i] = x})

\* C5: the Size Optimize returns for (S, ResolveMeta(S)) is never larger
\* than the Size ResolveMeta(S) returned, whatever the catalog holds.
C5_OptimizeNeverLarger ==
    (pc = "optimized" /\ meta.status = "ok" /\ optMeta.status = "ok") =>
        optMeta.Size <= meta.Size

\* C6: Optimize(S, ResolveMeta(S)) on a struct leaves in the Context, and
\* returns in its Layout, a permutation of the fields S had before the call.
C6_OptimizePermutes ==
    [][(pc = "resolved" /\ pc' = "optimized"
          /\ aggs[ctx[aggName]].Kind = StructKind) =>
            /\ IsPermutation(aggs'[ctx[aggName]].Fields, aggs[ctx[aggName]].Fields)
            /\ optMeta'.status = "ok"
            /\ IsPermutation(LayoutFields(optMeta'.Layout),
                             aggs[ctx[aggName]].Fields)]_vars

\* Optimize changed the order of a struct of three or more fields
C6_Witness ==
    /\ pc = "optimized"
    /\ aggs[ctx[aggName]].Kind = StructKind
    /\ optMeta.status = "ok"
    /\ Len(optMeta.Layout) >= 3
    /\ LayoutFields(optMeta.Layout) # LayoutFields(meta.Layout)

IsPowerOfTwo(n) == n > 0 /\ \E k \in 0..n : 2 ^ k = n

\* alignments are powers of two and every size is a multiple of its alignment
RegularLayout(layout) ==
    \A i \in 1..Len(layout) :
        /\ IsPowerOfTwo(layout[i].alignment)
        /\ layout[i].size % layout[i].alignment = 0

\* all orders of the sequence s
OrdersOf(s) ==
    {[i \in 1..Len(s) |-> s[p[i]]] :
        p \in {q \in [1..Len(s) -> 1..Len(s)] :
                  \A i, j \in 1..Len(s) : q[i] = q[j] => i = j}}

\* C7: for a struct whose field alignments are powers of two and whose
\* field sizes are multiples of their alignments, no order of the fields
\* resolves to a smaller Size than the one Optimize returns.
C7_OptimizeMinimal ==
    (pc = "optimized" /\ aggs[ctx[aggName]].Kind = StructKind
        /\ RegularLayout(meta.Layout)) =>
        /\ optMeta.status = "ok"
        /\ \A order \in OrdersOf(aggs[ctx[aggName]].Fields) :
              LET r == ResolveMeta([aggs EXCEPT ![ctx[aggName]].Fields = order],
                                   aggName, 0)
              IN r.status = "ok" /\ optMeta.Size <= r.Size

\* Optimize made a regular struct of three or more fields smaller
C7_Witness ==
    /\ pc = "optimized"
    /\ aggs[ctx[aggName]].Kind = StructKind
    /\ RegularLayout(meta.Layout)
    /\ Len(meta.Layout) >= 3
    /\ optMeta.status = "ok"
    /\ optMeta.Size < meta.Size

\* what resolving the single field f of an aggregate gives
FieldMeta(f) == firstPass(aggs, <<f>>, 1, <<>>, 0, 0)

\* C8: a Basic field whose unqualified type is a key of the Context resolves,
\* inside its aggregate, to the Size, Alignment and Layout that ResolveMeta
\* returns for that key.
C8_RecursiveComposition ==
    (pc = "resolved" /\ aggName \in DOMAIN ctx) =>
        \A f \in Range(aggs[ctx[aggName]].Fields) :
            (/\ f.kind = "Basic"
             /\ UnqualifiedType(f) \in DOMAIN ctx
             /\ UnqualifiedType(f) \notin DOMAIN TypeMap
             /\ ResolveMeta(aggs, UnqualifiedType(f), 0).status = "ok")
            => handleValueType(aggs, f, 0) = ResolveMeta(aggs, UnqualifiedType(f), 0)

RECURSIVE UnknownTypes(_, _)
\* the unqualified types, in neither the catalog nor the Context, of the
\* Basic and Array fields of the aggregate named key and of the aggregates
\* it contains by value
UnknownTypes(key, d) ==
    IF d > MaxDepth THEN {}
    ELSE UNION {LET t == UnqualifiedType(f)
                IN IF t \in DOMAIN TypeMap THEN {}
                   ELSE IF t \notin DOMAIN ctx THEN {t}
                   ELSE UnknownTypes(t, d + 1) :
                f \in {g \in Range(aggs[ctx[key]].Fields) :
                          g.kind \in {"Basic", "Array"}}}

IsSymbolErr(m) == m.status = "err" /\ m.is = "ErrSymbol"

\* C9: ResolveMeta returns an ErrSymbol error and no metadata when the name
\* is not in the Context or when some Basic or Array field, at any depth,
\* has a type in neither the catalog nor the Context; the field error names
\* the outer aggregate and an offending inner type.
C9_SymbolNotFound ==
    pc = "resolved" =>
        /\ aggName \notin DOMAIN ctx => IsSymbolErr(meta)
        /\ (aggName \in DOMAIN ctx /\ UnknownTypes(aggName, 0) # {}) =>
              /\ IsSymbolErr(meta)
              /\ StringsContains(meta.msg, "name " \o aggName \o ":")
              /\ \E t \in UnknownTypes(aggName, 0) :
                    StringsContains(meta.msg, "inner '" \o t \o "'")

\* C10: the Size of a resolved union with at least one member is the
\* largest member size rounded up to the largest member alignment, and its
\* Layout lists every member, in declaration order, with the size and the
\* alignment of that member.
C10_UnionSize ==
    (FreshOfKind(UnionKind) /\ Len(aggs[ctx[aggName]].Fields) > 0) =>
        LET fields == aggs[ctx[aggName]].Fields
            own == [i \in 1..Len(fields) |-> FieldMeta(fields[i]).resMetas[1]]
            m == MaxOfSet({own[i].Size : i \in 1..Len(fields)})
            A == MaxOfSet({own[i].Alignment : i \in 1..Len(fields)})
        IN /\ lastMeta.Size = m + CanonicalPadding(m, A)
           /\ LayoutFields(lastMeta.Layout) = fields
           /\ \A i \in 1..Len(fields) :
                 /\ lastMeta.Layout[i].size = own[i].Size
                 /\ lastMeta.Layout[i].alignment = own[i].Alignment

\* a union whose largest member is not the last one and is padded
C10_Witness ==
    /\ FreshOfKind(UnionKind)
    /\ Len(lastMeta.Layout) >= 3
    /\ lastMeta.Layout[1].size > lastMeta.Layout[Len(lastMeta.Layout)].size
    /\ \A i \in 1..Len(lastMeta.Layout) :
          lastMeta.Layout[i].size <= lastMeta.Layout[1].size
    /\ lastMeta.Size > lastMeta.Layout[1].size

\* index of the first entry of layout with the largest size
FirstLargest(layout) ==
    CHOOSE i \in 1..Len(layout) :
        /\ \A j \in 1..Len(layout) : layout[j].size <= layout[i].size
        /\ \A j \in 1..(i - 1) : layout[j].size < layout[i].size

\* C11: in the Layout of a resolved union only the entry of the member with
\* the largest size (the first one on ties) has a padding other than 0.
C11_UnionPaddingOnLargest ==
    (FreshOfKind(UnionKind) /\ Len(lastMeta.Layout) > 0) =>
        \A i \in 1..Len(lastMeta.Layout) :
            i # FirstLargest(lastMeta.Layout) => lastMeta.Layout[i].padding = 0

\* C12: on the default catalog union { char arr[9]; double b; } resolves to
\* size 16, alignment 8, with padding 0 on arr and padding 7 on b.
C12_UnionExample ==
    (/\ pc = "resolved"
     /\ CurrentCatalog = Catalog0
     /\ aggName \in DOMAIN ctx
     /\ aggs[ctx[aggName]].Kind = UnionKind
     /\ aggs[ctx[aggName]].Fields =
            <<Array(<<>>, "char", "arr", 9), Basic(<<>>, "double", "b")>>)
    => /\ meta.status = "ok"
       /\ meta.Size = 16
       /\ meta.Alignment = 8
       /\ Paddings(meta.Layout) = <<0, 7>>
       /\ LayoutFields(meta.Layout) = aggs[ctx[aggName]].Fields

\* that union has been resolved on the default catalog
C12_Witness ==
    /\ pc = "resolved"
    /\ CurrentCatalog = Catalog0
    /\ aggName = "union U"
    /\ meta.status = "ok"
    /\ Len(meta.Layout) = 2
    /\ meta.Layout[2].padding = 7

\* the aggregate a field's unqualified type names in the Context is an enum
IsEnumField(f) ==
    /\ f.kind = "Basic"
    /\ UnqualifiedType(f) \notin DOMAIN TypeMap
    /\ UnqualifiedType(f) \in DOMAIN ctx
    /\ aggs[ctx[UnqualifiedType(f)]].Kind = EnumKind

C13_WitnessField ==
    /\ FreshOfKind(StructKind)
    /\ enumSize # enumAlign
    /\ \E i \in 1..Len(lastMeta.Layout) : IsEnumField(lastMeta.Layout[i].Field)

IsPointerField(f) == f.kind \in {"Pointer", "FuncPointer"}

\* C14: a Pointer or FuncPointer field has the catalog's pointer size and
\* alignment and no sub-layout, whatever its pointee; an aggregate whose
\* other fields are all of catalog type resolves, also when a pointee is
\* declared nowhere or is the enclosing aggregate.
C14_PointerFields ==
    /\ (Fresh /\ aggs[ctx[aggName]].Kind # EnumKind)
       => \A i \in 1..Len(lastMeta.Layout) :
             IsPointerField(lastMeta.Layout[i].Field)
             => /\ lastMeta.Layout[i].size = pointerSize
                /\ lastMeta.Layout[i].alignment = pointerAlign
                /\ lastMeta.Layout[i].subAggregate = <<>>
    /\ (/\ pc = "resolved"
        /\ aggName \in DOMAIN ctx
        /\ aggs[ctx[aggName]].Kind # EnumKind
        /\ aggs[ctx[aggName]].Fields # <<>>
        /\ \A f \in Range(aggs[ctx[aggName]].Fields) :
              \/ IsPointerField(f)
              \/ f.kind \in {"Basic", "Array"}
                    /\ UnqualifiedType(f) \in DOMAIN TypeMap)
       => /\ meta.status = "ok"
          /\ Len(meta.Layout) = Len(aggs[ctx[aggName]].Fields)

\* a pointer to the enclosing aggregate and a function pointer have been
\* resolved
C14_Witness ==
    /\ pc = "resolved"
    /\ aggName = "struct Node"
    /\ meta.status = "ok"
    /\ meta.Layout[1].Field.TypeName = "struct Node"
    /\ meta.Layout[1].size = pointerSize
    /\ meta.Layout[2].Field.kind = "FuncPointer"
    /\ pointerSize # pointerAlign

\* a pointer to a type declared nowhere has been resolved
C14_WitnessUnknown ==
    /\ FreshOfKind(StructKind)
    /\ \E i \in 1..Len(lastMeta.Layout) :
          /\ lastMeta.Layout[i].Field.kind = "Pointer"
          /\ lastMeta.Layout[i].Field.TypeName \notin DOMAIN ctx
          /\ lastMeta.Layout[i].Field.TypeName \notin DOMAIN TypeMap

\* the metadata of one element of the Array field f: the catalog entry of
\* its type or the top-level resolution of the aggregate it names
ElementMeta(f) ==
    IF UnqualifiedType(f) \in DOMAIN TypeMap
    THEN OkMeta(TypeMap[UnqualifiedType(f)].Size,
                TypeMap[UnqualifiedType(f)].Alignment, <<>>)
    ELSE ResolveMeta(aggs, UnqualifiedType(f), 0)

\* C15: in a resolved aggregate an Array field has the size of one element
\* times Elements and the alignment of one element, for primitive and for
\* aggregate elements, and its sub-layout is the layout of one element.
C15_ArrayFields ==
    (Fresh /\ aggs[ctx[aggName]].Kind # EnumKind) =>
        \A i \in 1..Len(lastMeta.Layout) :
            LET e == lastMeta.Layout[i]
            IN e.Field.kind = "Array" =>
                  /\ ElementMeta(e.Field).status = "ok"
                  /\ e.size = ElementMeta(e.Field).Size * e.Field.Elements
                  /\ e.alignment = ElementMeta(e.Field).Alignment
                  /\ e.subAggregate = ElementMeta(e.Field).Layout

\* an array of two struct T, whose layout has two entries, has been resolved
C15_Witness ==
    /\ FreshOfKind(StructKind)
    /\ \E i \in 1..Len(lastMeta.Layout) :
          /\ lastMeta.Layout[i].Field.kind = "Array"
          /\ lastMeta.Layout[i].Field.TypeName = "struct T"
          /\ lastMeta.Layout[i].Field.Elements = 2
          /\ Len(lastMeta.Layout[i].subAggregate) = 2
          /\ lastMeta.Layout[i].size = 2 * ResolveMeta(aggs, "struct T", 0).Size

\* the names of the Context that refer to the record of name
Aliases(name) == {k \in DOMAIN ctx : ctx[k] = ctx[name]}

NonIncreasingAlignment(layout) ==
    \A i \in 1..(Len(layout) - 1) : layout[i].alignment >= layout[i + 1].alignment

\* C16: the names registered for an aggregate share one record: ResolveMeta
\* returns the same metadata through each of them, and after Optimize
\* through one of them ResolveMeta through every other one reports the
\* reordered fields.
C16_SharedRecord ==
    /\ \A i \in 1..Len(aggs) : \A k \in Range(GetAggregateNames(aggs[i])) :
          k \in DOMAIN ctx /\ ctx[k] = i
    /\ (pc = "resolved" /\ meta.status = "ok")
       => \A k \in Aliases(aggName) : ResolveMeta(aggs, k, 0) = meta
    /\ (pc = "optimized" /\ optMeta.status = "ok")
       => \A k \in Aliases(aggName) :
             /\ ResolveMeta(aggs, k, 0) = optMeta
             /\ aggs[ctx[k]].Kind # EnumKind
                   => LayoutFields(ResolveMeta(aggs, k, 0).Layout) = aggs[ctx[k]].Fields
             /\ aggs[ctx[k]].Kind = StructKind
                   => NonIncreasingAlignment(ResolveMeta(aggs, k, 0).Layout)

\* Optimize through the typedef name moved fields, and the tag names report
\* the new order
C16_Witness ==
    /\ pc = "optimized"
    /\ aggName = "S_t"
    /\ optMeta.status = "ok"
    /\ aggs[ctx[aggName]].Kind = StructKind
    /\ LayoutFields(meta.Layout) # LayoutFields(optMeta.Layout)
    /\ {"struct S", "S", "S_t"} \subseteq Aliases(aggName)
    /\ ResolveMeta(aggs, "struct S", 0) = optMeta

\* the tag of a named aggregate: its Name without the keyword of its kind
BareTag(agg) == SubSeq(agg.Name, Len(KindName(agg.Kind)) + 2, Len(agg.Name))

\* the names an aggregate is to be known by
ExpectedNames(agg) ==
    (IF agg.Typedef # "" THEN {agg.Typedef} ELSE {})
    \cup (IF agg.Name # "" THEN {agg.Name, BareTag(agg)} ELSE {})

\* C17: for a struct, a union and an enum alike GetAggregateNames returns
\* exactly the typedef alias, if any, and for a tagged aggregate its
\* qualified name and its bare tag, and the Index holds the aggregate under
\* each of these names.
C17_AggregateNames ==
    pc = "resolved" =>
        \A i \in 1..Len(aggs) :
            /\ Range(GetAggregateNames(aggs[i])) = ExpectedNames(aggs[i])
            /\ \A k \in ExpectedNames(aggs[i]) : k \in DOMAIN ctx /\ ctx[k] = i

\* every size and every alignment of the catalog is at least 1
CatalogPositive ==
    /\ pointerSize > 0 /\ pointerAlign > 0
    /\ enumSize > 0 /\ enumAlign > 0
    /\ \A k \in DOMAIN TypeMap : TypeMap[k].Size > 0 /\ TypeMap[k].Alignment > 0

\* C18: an override with a zero or negative size or alignment is rejected
\* and leaves the catalog as it was, so every resolution runs on a catalog
\* without a zero or negative size or alignment.
C18_InvalidOverrideRejected ==
    pc \in {"configured", "resolved", "optimized"} => CatalogPositive

\* the spellings of each integer category in the catalog
CategoryKeys ==
    <<{"char", "signed char", "unsigned char"},
      {"short", "short int", "signed short", "signed short int",
       "unsigned short", "unsigned short int"},
      {"int", "signed", "signed int", "unsigned", "unsigned int"},
      {"long", "long int", "signed long", "signed long int",
       "unsigned long", "unsigned long int"},
      {"long long", "long long int", "signed long long",
       "signed long long int", "unsigned long long", "unsigned long long int"}>>

\* the <<alignment, size>> the 32bit and the AVR preset give each category
Preset32 == <<TM(1, 1), TM(2, 2), TM(4, 4), TM(4, 4), TM(4, 8)>>
PresetAvr == <<TM(1, 1), TM(1, 2), TM(1, 2), TM(1, 4), TM(1, 8)>>

\* every spelling of category c has the entry value
CategoryIs(c, value) == \A k \in CategoryKeys[c] : TypeMap[k] = value

\* C19: a category setter changes every spelling of its category and adds
\* no key: after the configuration all spellings of a category have one
\* entry, the 32bit and the AVR preset give every spelling of every category
\* the preset's values, and the catalog has the keys it started with.
C19_CategorySetters ==
    pc = "configured" =>
        /\ DOMAIN TypeMap = DOMAIN TypeMap0
        /\ \A c \in 1..Len(CategoryKeys) :
              \A k1, k2 \in CategoryKeys[c] : TypeMap[k1] = TypeMap[k2]
        /\ (pointerAlign = 4 /\ pointerSize = 4)
              => \A c \in 1..Len(CategoryKeys) : CategoryIs(c, Preset32[c])
        /\ (pointerAlign = 1 /\ pointerSize = 2)
              => \A c \in 1..Len(CategoryKeys) : CategoryIs(c, PresetAvr[c])

\* the catalog entry of the first spelling of the category of flag idx
PrimaryEntry(idx) ==
    CASE idx = 1 -> TM(pointerAlign, pointerSize)
      [] idx = 2 -> TM(enumAlign, enumSize)
      [] idx = 3 -> TypeMap["char"]
      [] idx = 4 -> TypeMap["short"]
      [] idx = 5 -> TypeMap["int"]
      [] idx = 6 -> TypeMap["long"]
      [] idx = 7 -> TypeMap["long long"]
      [] idx = 8 -> TypeMap["float"]
      [] idx = 9 -> TypeMap["double"]
      [] idx = 10 -> TypeMap["long double"]

\* the entries the presets give the ten categories, in the order of the flags
Primary32 == <<TM(4, 4), TM(4, 4), TM(1, 1), TM(2, 2), TM(4, 4), TM(4, 4),
               TM(4, 8), TM(4, 4), TM(4, 8), TM(4, 12)>>
PrimaryAvr == <<TM(1, 2), TM(1, 2), TM(1, 1), TM(1, 2), TM(1, 2), TM(1, 4),
                TM(1, 8), TM(1, 4), TM(1, 4), TM(1, 8)>>

\* C20: on a command line with a preset and overrides both are applied
\* before the first resolution: every given override shows in its category
\* and the other categories have the values of the preset.
C20_PresetAndOverrides ==
    (pc = "configured" /\ (osArgs.s32bit \/ osArgs.avr)) =>
        \A idx \in 1..Len(osArgs.flags) :
            IF osArgs.flags[idx] # NoFlag
            THEN PrimaryEntry(idx) = TM(osArgs.flags[idx][1], osArgs.flags[idx][2])
            ELSE PrimaryEntry(idx) = (IF osArgs.s32bit THEN Primary32 ELSE PrimaryAvr)[idx]

\* C21: the override x,y of a category sets the size of the category to x
\* and its alignment to y.
C21_OverrideOrder ==
    (pc = "configured" /\ ~osArgs.s32bit /\ ~osArgs.avr) =>
        \A idx \in 1..Len(osArgs.flags) :
            osArgs.flags[idx] # NoFlag =>
                /\ PrimaryEntry(idx).Size = osArgs.flags[idx][1]
                /\ PrimaryEntry(idx).Alignment = osArgs.flags[idx][2]

\* C22: Optimize of a union or of an enum leaves the fields stored in the
\* Context in their order and returns the metadata it was given.
C22_OptimizeUnionEnum ==
    [][(pc = "resolved" /\ pc' = "optimized"
          /\ aggs[ctx[aggName]].Kind \in {UnionKind, EnumKind}) =>
            /\ aggs' = aggs
            /\ optMeta' = meta]_vars

\* Optimize ran on a union whose members are not in descending alignment
C22_Witness ==
    /\ pc = "optimized"
    /\ aggs[ctx[aggName]].Kind = UnionKind
    /\ optMeta.status = "ok"
    /\ Len(optMeta.Layout) >= 2
    /\ ~NonIncreasingAlignment(optMeta.Layout)

\* Optimize ran on an enum
C22_WitnessEnum ==
    /\ pc = "optimized"
    /\ aggs[ctx[aggName]].Kind = EnumKind
    /\ Len(aggs[ctx[aggName]].Fields) >= 2
    /\ optMeta = meta

\* C23: resolving a struct or a union without fields returns an
\* EmptyAggregate error, not a fault and not metadata.
C23_EmptyAggregate ==
    (/\ pc = "resolved"
     /\ aggName \in DOMAIN ctx
     /\ aggs[ctx[aggName]].Kind \in {StructKind, UnionKind}
     /\ aggs[ctx[aggName]].Fields = <<>>)
    => /\ meta.status = "err"
       /\ meta.is = "EmptyAggregate"

\* positions of the field f in the field list fs
PositionIn(fs, f) == CHOOSE i \in 1..Len(fs) : fs[i] = f

\* C24: the order Optimize writes for a struct is the stable sort of the
\* input layout by descending alignment: alignments do not increase along
\* it and fields of equal alignment keep their relative order, whatever the
\* number of fields.
C24_OptimizeStable ==
    (pc = "optimized" /\ aggs[ctx[aggName]].Kind = StructKind
        /\ optMeta.status = "ok") =>
        LET before == LayoutFields(meta.Layout)
            after == aggs[ctx[aggName]].Fields
            al == [i \in 1..Len(optMeta.Layout) |-> optMeta.Layout[i].alignment]
        IN /\ LayoutFields(optMeta.Layout) = after
           /\ \A i \in 1..(Len(after) - 1) : al[i] >= al[i + 1]
           /\ \A i, j \in 1..Len(after) :
                 (i < j /\ al[i] = al[j])
                 => PositionIn(before, after[i]) < PositionIn(before, after[j])

\* C25: Optimize on the metadata a first Optimize of a struct returned
\* returns that metadata again and leaves the field order of the Context as
\* the first call wrote it.
C25_OptimizeIdempotent ==
    [][(pc = "optimized" /\ pc' = "reoptimized"
          /\ aggs[ctx[aggName]].Kind = StructKind) =>
            /\ optMeta' = optMeta
            /\ aggs' = aggs]_vars

\* Optimize ran twice on a struct that has fields of equal and of different
\* alignment
C25_Witness ==
    /\ pc = "reoptimized"
    /\ aggs[ctx[aggName]].Kind = StructKind
    /\ optMeta.status = "ok"
    /\ Len(optMeta.Layout) >= 3
    /\ optMeta.Layout[1].alignment > optMeta.Layout[Len(optMeta.Layout)].alignment
    /\ \E i \in 1..(Len(optMeta.Layout) - 1) :
          optMeta.Layout[i].alignment = optMeta.Layout[i + 1].alignment

\* C26: Optimize changes nothing but the order of the fields of the record
\* registered under the name: every other aggregate (those nested by value
\* in it included), the names of the Context, the catalog and the metadata
\* of the caller with its Layout order stay as they were.
C26_OptimizeFrame ==
    [][(pc = "resolved" /\ pc' = "optimized") =>
          /\ \A i \in DOMAIN aggs : i # ctx[aggName] => aggs'[i] = aggs[i]
          /\ DOMAIN aggs' = DOMAIN aggs
          /\ [aggs'[ctx[aggName]] EXCEPT !.Fields = aggs[ctx[aggName]].Fields]
                = aggs[ctx[aggName]]
          /\ IsPermutation(aggs'[ctx[aggName]].Fields,
                           aggs[ctx[aggName]].Fields)
          /\ ctx' = ctx
          /\ catalogVars' = catalogVars
          /\ meta' = meta]_vars

\* Optimize reordered a struct that holds struct T by value
C26_Witness ==
    /\ pc = "optimized"
    /\ optMeta.status = "ok"
    /\ aggs[ctx[aggName]].Kind = StructKind
    /\ \E i \in 1..Len(aggs[ctx[aggName]].Fields) :
          aggs[ctx[aggName]].Fields[i] = Basic(<<>>, "struct T", "t")
    /\ LayoutFields(meta.Layout) # aggs[ctx[aggName]].Fields
    /\ aggs[ctx["struct T"]] = declT

\* C27: ResolveMeta, whether it succeeds or fails, leaves every aggregate,
\* the names of the Context and the catalog as they were, so that a second
\* ResolveMeta of the same name right after it returns an equal result.
C27_ResolveFrame ==
    /\ [][pc' = "resolved" =>
            /\ aggs' = aggs
            /\ ctx' = ctx
            /\ catalogVars' = catalogVars]_vars
    /\ [](pc = "resolved" => ResolveMeta(aggs, aggName, 0) = meta)

\* a resolution of several fields succeeded
C27_Witness ==
    /\ pc = "resolved"
    /\ meta.status = "ok"
    /\ Len(meta.Layout) >= 2
    /\ aggs[ctx[aggName]].Kind \in {StructKind, UnionKind}

\* a resolution failed on a field that follows a resolved one
C27_WitnessFailed ==
    /\ pc = "resolved"
    /\ meta.status = "err"
    /\ aggName \in DOMAIN ctx
    /\ Len(aggs[ctx[aggName]].Fields) >= 2
    /\ FieldMeta(aggs[ctx[aggName]].Fields[1]).status = "ok"

\* C28: Optimize called with a name that is no key of the Context returns
\* an error and does not fault.
C28_OptimizeUnknownName ==
    (pc = "optimizedUnknown" /\ aggName \notin DOMAIN ctx) =>
        optMeta.status = "err"

\* C29: ResolveMeta terminates on every Context, through a recursion guard
\* where an aggregate contains itself by value: no resolution runs into
\* unbounded recursion.
C29_ResolveTerminates ==
    pc = "resolved" => ~(meta.status = "fault" /\ meta.why = "stack overflow")

IsKeyQualifier(q) == q \in keyQualifiers

\* the type name after those qualifiers that are signed, unsigned or long
KeyQualifiedType(f) ==
    Join(Append(SelectSeq(f.Qualifiers, IsKeyQualifier), f.TypeName), " ")

\* C30: the unqualified type of a Basic or Array field is its type name
\* preceded by exactly its signed, unsigned and long qualifiers in their
\* order; const, volatile and every other qualifier is dropped wherever it
\* stands, and the field resolves as the field without them does.
C30_UnqualifiedType ==
    (pc = "resolved" /\ aggName \in DOMAIN ctx) =>
        \A f \in Range(aggs[ctx[aggName]].Fields) :
            f.kind \in {"Basic", "Array"} =>
                /\ UnqualifiedType(f) = KeyQualifiedType(f)
                /\ FieldMeta(f)
                     = FieldMeta([f EXCEPT
                          !.Qualifiers = SelectSeq(f.Qualifiers, IsKeyQualifier)])

====
